---- MODULE Spec2Model ----
(***************************************************************************)
(* Bank statement converter: the PDF Parser (backend/utils/pdf_parser.py)  *)
(* and the Data Processor (backend/utils/data_processor.py).               *)
(*                                                                         *)
(* Encoding of Python values:                                              *)
(*   - a str is a sequence of one-character strings;                       *)
(*   - a value that may be None is a sequence of length 0 (None) or 1;     *)
(*   - money is an integer number of sub-cents: one cent is Sub units, so  *)
(*     that values with more than two decimals exist and round(x, 2) is a  *)
(*     real conversion;                                                    *)
(*   - a raised exception is a record with ok = FALSE.                     *)
(***************************************************************************)
EXTENDS Integers, Sequences, FiniteSets, TLC

\* ------------------------------------------------------------------ bounds
Sub == 3          \* sub-cent units per cent
MaxBatch == 3     \* longest list passed to process_transactions
MaxPages == 3     \* most pages one PDFParser is given, over all its documents
MaxCalls == 2     \* parse_pdf calls made on one PDFParser
MaxRows == 3      \* most data rows in one table

\* ------------------------------------------------------- python primitives
None == <<>>
Some(v) == <<v>>
Val(o) == o[1]

\* one currency unit (100 cents) times n
Money(n) == n * 100 * Sub

Abs(n) == IF n < 0 THEN -n ELSE n

\* bool(x) for a str-or-None / number-or-None
TruthyStr(o) == o # None /\ Val(o) # <<>>
TruthyNum(o) == o # None /\ Val(o) # 0

IsSpace(c) == c \in {" ", "\t", "\n"}
IsDigit(c) == c \in {"0","1","2","3","4","5","6","7","8","9"}
DigitVal(c) == CASE c = "0" -> 0 [] c = "1" -> 1 [] c = "2" -> 2 [] c = "3" -> 3
                 [] c = "4" -> 4 [] c = "5" -> 5 [] c = "6" -> 6 [] c = "7" -> 7
                 [] c = "8" -> 8 [] c = "9" -> 9
DigitChar(n) == <<"0","1","2","3","4","5","6","7","8","9">>[n + 1]

UpperChars == <<"A","B","C","D","E","F","G","H","I","J","K","L","M","N","O","P","Q","R","S","T","U","V","W","X","Y","Z">>
LowerChars == <<"a","b","c","d","e","f","g","h","i","j","k","l","m","n","o","p","q","r","s","t","u","v","w","x","y","z">>
LowerChar(c) == IF \E i \in 1..26 : UpperChars[i] = c
                THEN LowerChars[CHOOSE i \in 1..26 : UpperChars[i] = c] ELSE c
UpperChar(c) == IF \E i \in 1..26 : LowerChars[i] = c
                THEN UpperChars[CHOOSE i \in 1..26 : LowerChars[i] = c] ELSE c
\* str.lower(), str.upper()
Lower(s) == [i \in 1..Len(s) |-> LowerChar(s[i])]
Upper(s) == [i \in 1..Len(s) |-> UpperChar(s[i])]

\* sub in s
Contains(s, sub) == \E i \in 1..(Len(s) - Len(sub) + 1) : SubSeq(s, i, i + Len(sub) - 1) = sub

\* str.strip()
Strip(s) ==
    LET solid == {i \in 1..Len(s) : ~IsSpace(s[i])}
    IN  IF solid = {} THEN <<>>
        ELSE SubSeq(s, CHOOSE i \in solid : \A j \in solid : i <= j,
                       CHOOSE i \in solid : \A j \in solid : j <= i)

\* str.replace(c, '')
Remove(s, c) == SelectSeq(s, LAMBDA ch : ch # c)

\* str.split(): the maximal runs of non-whitespace characters, in order
Split(s) ==
    LET starts == {i \in 1..Len(s) : ~IsSpace(s[i]) /\ (i = 1 \/ IsSpace(s[i - 1]))}
        endOf(i) == CHOOSE j \in i..Len(s) :
                        /\ \A k \in i..j : ~IsSpace(s[k])
                        /\ (j = Len(s) \/ IsSpace(s[j + 1]))
        nth(n) == CHOOSE i \in starts : Cardinality({k \in starts : k < i}) = n - 1
    IN  [n \in 1..Cardinality(starts) |-> SubSeq(s, nth(n), endOf(nth(n)))]

\* str.split(sep) for a one-character separator
RECURSIVE SplitOn(_, _, _, _)
SplitOn(s, sep, cur, acc) ==
    IF s = <<>> THEN Append(acc, cur)
    ELSE IF Head(s) = sep THEN SplitOn(Tail(s), sep, <<>>, Append(acc, cur))
         ELSE SplitOn(Tail(s), sep, Append(cur, Head(s)), acc)

\* ' '.join(words)
RECURSIVE JoinSp(_)
JoinSp(words) == IF words = <<>> THEN <<>>
                 ELSE IF Len(words) = 1 THEN words[1]
                 ELSE words[1] \o <<" ">> \o JoinSp(Tail(words))

\* the value of a run of decimal digits
RECURSIVE DigitsVal(_)
DigitsVal(s) == IF s = <<>> THEN 0 ELSE DigitsVal(SubSeq(s, 1, Len(s) - 1)) * 10 + DigitVal(s[Len(s)])

AllDigits(s) == \A i \in 1..Len(s) : IsDigit(s[i])

\* round(x, 2) of a value held in sub-cents, as sub-cents: the nearest whole
\* cent, an exact tie going to the even cent
RoundSub(x) ==
    LET a == Abs(x)
        q == a \div Sub
        r == a % Sub
        up == (2 * r > Sub) \/ (2 * r = Sub /\ q % 2 = 1)
        m == (IF up THEN q + 1 ELSE q) * Sub
    IN  IF x < 0 THEN -m ELSE m

RECURSIVE SumSeq(_)
SumSeq(s) == IF s = <<>> THEN 0 ELSE Head(s) + SumSeq(Tail(s))

\* ==================================================================== state
\* DataProcessor: the instance fields and the position in process_transactions
VARIABLES processed_transactions, validation_errors,
          dp_pc, dp_input, dp_idx, dp_result

dp_vars == <<processed_transactions, validation_errors, dp_pc, dp_input, dp_idx, dp_result>>

\* PDFParser: the instance fields, the position in parse_pdf, and what the
\* last page step saw; tb_*: the position in extract_from_table
VARIABLES transactions, bank_type, statement_date_range,
          pp_pc, pp_doc, pp_page, pp_result, pp_calls, pp_scanned,
          pp_start, pp_before, pp_mid, pp_text_ran,
          tb_pc, tb_table, tb_row

pp_rest == <<bank_type, statement_date_range, pp_pc, pp_doc, pp_page, pp_result, pp_calls,
             pp_scanned, pp_start, pp_before, pp_mid, pp_text_ran>>

pp_vars == <<transactions, pp_rest>>

tb_vars == <<tb_pc, tb_table, tb_row>>

vars == <<dp_vars, pp_vars, tb_vars>>

\* ============================================================ DataProcessor
MaxDescLen == 100
KeepDescLen == 97

\* clean_description that trims but leaves inner whitespace runs alone
clean_description_strip_only(description) ==
    LET joined == Strip(description)
    IN  IF Len(joined) > MaxDescLen
        THEN SubSeq(joined, 1, KeepDescLen) \o <<".",".",".">>
        ELSE joined

\* clean_description
clean_description(description) ==
    LET joined == Strip(JoinSp(Split(description)))
    IN  IF Len(joined) > MaxDescLen
        THEN SubSeq(joined, 1, KeepDescLen) \o <<".",".",".">>
        ELSE joined

\* the keyword table of categorize_transaction, in its declared order
categories == <<
    <<"SALARY", <<<<"s","a","l","a","r","y">>, <<"w","a","g","e">>, <<"s","t","i","p","e","n","d">>, <<"p","a","y","r","o","l","l">>>> >>,
    <<"TRANSFER", <<<<"t","r","a","n","s","f","e","r">>, <<"t","r","f">>, <<"n","e","f","t">>, <<"r","t","g","s">>, <<"i","m","p","s">>>> >>,
    <<"WITHDRAWAL", <<<<"w","i","t","h","d","r","a","w","a","l">>, <<"a","t","m">>, <<"c","a","s","h">>>> >>,
    <<"DEPOSIT", <<<<"d","e","p","o","s","i","t">>, <<"c","h","e","q","u","e">>, <<"c","h","e","c","k">>>> >>,
    <<"UTILITY", <<<<"e","l","e","c","t","r","i","c","i","t","y">>, <<"w","a","t","e","r">>, <<"g","a","s">>, <<"p","h","o","n","e">>, <<"i","n","t","e","r","n","e","t">>>> >>,
    <<"FOOD", <<<<"r","e","s","t","a","u","r","a","n","t">>, <<"f","o","o","d">>, <<"c","a","f","e">>, <<"g","r","o","c","e","r","y">>, <<"s","u","p","e","r","m","a","r","k","e","t">>>> >>,
    <<"ENTERTAINMENT", <<<<"m","o","v","i","e">>, <<"c","i","n","e","m","a">>, <<"e","n","t","e","r","t","a","i","n","m","e","n","t">>, <<"g","a","m","e","s">>>> >>,
    <<"HEALTHCARE", <<<<"h","o","s","p","i","t","a","l">>, <<"c","l","i","n","i","c">>, <<"p","h","a","r","m","a","c","y">>, <<"d","o","c","t","o","r">>, <<"m","e","d","i","c","a","l">>>> >>,
    <<"SHOPPING", <<<<"s","h","o","p","p","i","n","g">>, <<"m","a","l","l">>, <<"s","t","o","r","e">>, <<"r","e","t","a","i","l">>>> >>,
    <<"TRANSPORT", <<<<"u","b","e","r">>, <<"t","a","x","i">>, <<"p","e","t","r","o","l">>, <<"f","u","e","l">>, <<"t","r","a","n","s","p","o","r","t">>>> >>,
    <<"SUBSCRIPTION", <<<<"s","u","b","s","c","r","i","p","t","i","o","n">>, <<"n","e","t","f","l","i","x">>, <<"s","p","o","t","i","f","y">>, <<"p","r","i","m","e">>>> >> >>

\* categorize_transaction: the first category one of whose keywords occurs
categorize_transaction(description) ==
    LET desc_lower == Lower(description)
        hit(i) == \E k \in 1..Len(categories[i][2]) : Contains(desc_lower, categories[i][2][k])
    IN  IF \E i \in 1..Len(categories) : hit(i)
        THEN categories[CHOOSE i \in 1..Len(categories) :
                            hit(i) /\ \A j \in 1..(i - 1) : ~hit(j)][1]
        ELSE "OTHER"

\* validate_and_clean_transaction without the blank-description test of line 50
validate_without_blank_check(transaction, idx) ==
    LET date == transaction.date
        description == transaction.description
        amount == transaction.amount
        balance == transaction.balance
    IN  IF ~TruthyStr(date) THEN [ok |-> FALSE, error |-> "Missing date"]
        ELSE IF ~TruthyStr(description)
             THEN [ok |-> FALSE, error |-> "Missing description"]
        ELSE IF amount = None THEN [ok |-> FALSE, error |-> "Missing amount"]
        ELSE LET cleaned == clean_description(Val(description))
                 amt == Val(amount)
             IN  [ok |-> TRUE,
                  value |-> [date |-> date,
                             description |-> cleaned,
                             amount |-> Abs(amt),
                             type |-> IF amt < 0 THEN "DEBIT" ELSE "CREDIT",
                             balance |-> IF TruthyNum(balance) THEN balance ELSE None,
                             category |-> categorize_transaction(cleaned),
                             raw_amount |-> amt,
                             row_num |-> idx + 2]]

\* validate_and_clean_transaction without line 59: the type read at line 46 is kept
validate_keeping_supplied_type(transaction, idx) ==
    LET date == transaction.date
        description == transaction.description
        amount == transaction.amount
        balance == transaction.balance
        trans_type == IF transaction.type = None THEN "CREDIT" ELSE Val(transaction.type)
    IN  IF ~TruthyStr(date) THEN [ok |-> FALSE, error |-> "Missing date"]
        ELSE IF ~TruthyStr(description) \/ Strip(Val(description)) = <<>>
             THEN [ok |-> FALSE, error |-> "Missing description"]
        ELSE IF amount = None THEN [ok |-> FALSE, error |-> "Missing amount"]
        ELSE LET cleaned == clean_description(Val(description))
                 amt == Val(amount)
             IN  [ok |-> TRUE,
                  value |-> [date |-> date,
                             description |-> cleaned,
                             amount |-> Abs(amt),
                             type |-> trans_type,
                             balance |-> IF TruthyNum(balance) THEN balance ELSE None,
                             category |-> categorize_transaction(cleaned),
                             raw_amount |-> amt,
                             row_num |-> idx + 2]]

\* validate_and_clean_transaction: ok = FALSE is the raised ValueError
validate_and_clean_transaction(transaction, idx) ==
    LET date == transaction.date
        description == transaction.description
        amount == transaction.amount
        balance == transaction.balance
    IN  IF ~TruthyStr(date) THEN [ok |-> FALSE, error |-> "Missing date"]
        ELSE IF ~TruthyStr(description) \/ Strip(Val(description)) = <<>>
             THEN [ok |-> FALSE, error |-> "Missing description"]
        ELSE IF amount = None THEN [ok |-> FALSE, error |-> "Missing amount"]
        ELSE LET cleaned == clean_description(Val(description))
                 amt == Val(amount)
             IN  [ok |-> TRUE,
                  value |-> [date |-> date,
                             description |-> cleaned,
                             amount |-> Abs(amt),
                             type |-> IF amt < 0 THEN "DEBIT" ELSE "CREDIT",
                             balance |-> IF TruthyNum(balance) THEN balance ELSE None,
                             category |-> categorize_transaction(cleaned),
                             raw_amount |-> amt,
                             row_num |-> idx + 2]]

\* generate_summary whose two sums forget the type filter of lines 119-120
generate_summary_unfiltered(processed) ==
    IF processed = <<>>
    THEN [total_transactions |-> 0, total_credits |-> 0, total_debits |-> 0,
          net_amount |-> 0, opening_balance |-> None, closing_balance |-> None]
    ELSE LET credits == SumSeq([i \in 1..Len(processed) |-> processed[i].amount])
             debits == SumSeq([i \in 1..Len(processed) |-> processed[i].amount])
             first == processed[1]
             last == processed[Len(processed)]
         IN  [total_transactions |-> Len(processed),
              total_credits |-> RoundSub(credits),
              total_debits |-> RoundSub(debits),
              net_amount |-> RoundSub(credits - debits),
              opening_balance |-> IF TruthyNum(first.balance) THEN first.balance ELSE None,
              closing_balance |-> IF TruthyNum(last.balance) THEN last.balance ELSE None]

\* generate_summary
generate_summary(processed) ==
    IF processed = <<>>
    THEN [total_transactions |-> 0, total_credits |-> 0, total_debits |-> 0,
          net_amount |-> 0, opening_balance |-> None, closing_balance |-> None]
    ELSE LET amountsOf(ty) == [i \in 1..Len(SelectSeq(processed, LAMBDA t : t.type = ty))
                                 |-> SelectSeq(processed, LAMBDA t : t.type = ty)[i].amount]
             credits == SumSeq(amountsOf("CREDIT"))
             debits == SumSeq(amountsOf("DEBIT"))
             first == processed[1]
             last == processed[Len(processed)]
         IN  [total_transactions |-> Len(processed),
              total_credits |-> RoundSub(credits),
              total_debits |-> RoundSub(debits),
              net_amount |-> RoundSub(credits - debits),
              opening_balance |-> IF TruthyNum(first.balance) THEN first.balance ELSE None,
              closing_balance |-> IF TruthyNum(last.balance) THEN last.balance ELSE None]

\* ----- inputs of process_transactions
Str150 == [i \in 1..150 |-> IF i % 7 = 0 THEN " " ELSE "x"]

Cand(d, desc, a, b, ty) == [date |-> d, description |-> desc, amount |-> a, balance |-> b, type |-> ty]

ScenarioA == Cand(Some(<<"0","1","-","0","1","-","2","0","2","4">>), Some(<<" "," ","A","T","M"," "," "," ","C","a","s","h"," "," "," ","W","i","t","h","d","r","a","w","a","l"," ">>),
                  Some(Money(-500)), Some(Money(1500)), None)

Candidates == {
    ScenarioA,
    Cand(Some(<<"2","0","2","4","-","0","1","-","0","2">>), Some(<<"S","a","l","a","r","y"," ","N","E","F","T"," ","t","r","a","n","s","f","e","r">>), Some(2), Some(0), Some("DEBIT")),
    Cand(Some(<<"2","0","2","4","-","0","1","-","0","3">>), Some(<<"C","o","f","f","e","e">>), Some(-2), None, Some("CREDIT")),
    Cand(Some(<<"2","0","2","4","-","0","1","-","0","5">>), Some(Str150), Some(0), Some(-Sub), None),
    Cand(Some(<<>>), Some(<<"C","h","e","q","u","e"," ","d","e","p","o","s","i","t">>), Some(Money(1)), None, Some("CREDIT")),
    Cand(Some(<<"2","0","2","4","-","0","1","-","0","6">>), Some(<<" ","\t"," ">>), Some(-Sub), None, Some("DEBIT")),
    Cand(Some(<<"2","0","2","4","-","0","1","-","0","7">>), Some(<<"U","b","e","r"," ","r","i","d","e">>), None, Some(Money(3)), Some("DEBIT")) }

RECURSIVE SeqsUpTo(_, _)
SeqsUpTo(S, n) == IF n = 0 THEN {<<>>}
                  ELSE LET shorter == SeqsUpTo(S, n - 1)
                       IN  shorter \cup {Append(s, e) : s \in {t \in shorter : Len(t) = n - 1}, e \in S}

Batches == SeqsUpTo(Candidates, MaxBatch)

\* ----- process_transactions, one step per statement group
\* lines 13-14: the accumulators are reset, the loop starts
ProcessCall ==
    /\ dp_pc \in {"idle", "returned"}
    /\ \E batch \in Batches : dp_input' = batch
    /\ processed_transactions' = <<>>
    /\ validation_errors' = <<>>
    /\ dp_idx' = 0
    /\ dp_result' = None
    /\ dp_pc' = "loop"
    /\ UNCHANGED <<pp_vars, tb_vars>>

\* the loop of lines 16-27 with the try around the whole loop: the first
\* failure is recorded and ends the loop
ProcessItem_stopping_at_error ==
    /\ dp_pc = "loop"
    /\ dp_idx < Len(dp_input)
    /\ LET transaction == dp_input[dp_idx + 1]
           r == validate_and_clean_transaction(transaction, dp_idx)
       IN  IF r.ok
           THEN /\ processed_transactions' = Append(processed_transactions, r.value)
                /\ dp_idx' = dp_idx + 1
                /\ UNCHANGED validation_errors
           ELSE /\ validation_errors' = Append(validation_errors,
                        [index |-> dp_idx, error |-> r.error, transaction |-> transaction])
                /\ dp_idx' = Len(dp_input)
                /\ UNCHANGED processed_transactions
    /\ UNCHANGED <<dp_pc, dp_input, dp_result>>
    /\ UNCHANGED <<pp_vars, tb_vars>>

\* lines 16-27: one iteration of the loop
ProcessItem ==
    /\ dp_pc = "loop"
    /\ dp_idx < Len(dp_input)
    /\ LET transaction == dp_input[dp_idx + 1]
           r == validate_and_clean_transaction(transaction, dp_idx)
       IN  IF r.ok
           THEN /\ processed_transactions' = Append(processed_transactions, r.value)
                /\ UNCHANGED validation_errors
           ELSE /\ validation_errors' = Append(validation_errors,
                        [index |-> dp_idx, error |-> r.error, transaction |-> transaction])
                /\ UNCHANGED processed_transactions
    /\ dp_idx' = dp_idx + 1
    /\ UNCHANGED <<dp_pc, dp_input, dp_result>>
    /\ UNCHANGED <<pp_vars, tb_vars>>

\* lines 29-38: the envelope is returned
ProcessReturn ==
    /\ dp_pc = "loop"
    /\ dp_idx = Len(dp_input)
    /\ dp_result' = Some([status |-> "success",
                          transactions |-> processed_transactions,
                          total_processed |-> Len(processed_transactions),
                          total_errors |-> Len(validation_errors),
                          validation_errors |-> validation_errors,
                          summary |-> generate_summary(processed_transactions)])
    /\ dp_pc' = "returned"
    /\ UNCHANGED <<processed_transactions, validation_errors, dp_input, dp_idx>>
    /\ UNCHANGED <<pp_vars, tb_vars>>

DPInit ==
    /\ processed_transactions = <<>>
    /\ validation_errors = <<>>
    /\ dp_pc = "idle"
    /\ dp_input = <<>>
    /\ dp_idx = 0
    /\ dp_result = None

\* ================================================================ PDFParser
\* ----- parse_date
MonthAbbr == <<<<"j","a","n">>, <<"f","e","b">>, <<"m","a","r">>, <<"a","p","r">>, <<"m","a","y">>, <<"j","u","n">>,
               <<"j","u","l">>, <<"a","u","g">>, <<"s","e","p">>, <<"o","c","t">>, <<"n","o","v">>, <<"d","e","c">>>>
MonthFull == <<<<"j","a","n","u","a","r","y">>, <<"f","e","b","r","u","a","r","y">>, <<"m","a","r","c","h">>, <<"a","p","r","i","l">>, <<"m","a","y">>, <<"j","u","n","e">>,
               <<"j","u","l","y">>, <<"a","u","g","u","s","t">>, <<"s","e","p","t","e","m","b","e","r">>, <<"o","c","t","o","b","e","r">>, <<"n","o","v","e","m","b","e","r">>, <<"d","e","c","e","m","b","e","r">>>>

\* the formats of date_formats, in order: <<separator, directive, directive, directive>>
date_formats == <<
    <<"-", "d", "m", "Y">>, <<"/", "d", "m", "Y">>, <<"-", "m", "d", "Y">>, <<"/", "m", "d", "Y">>,
    <<"-", "Y", "m", "d">>, <<"/", "Y", "m", "d">>, <<"-", "d", "b", "Y">>, <<"/", "d", "b", "Y">>,
    <<"-", "b", "d", "Y">>, <<"/", "b", "d", "Y">>, <<"-", "d", "B", "Y">>, <<"/", "d", "B", "Y">> >>

\* what one strptime directive reads from one field: None if the field does not match
Directive(dir, field) ==
    CASE dir = "d" ->
            IF Len(field) \in {1, 2} /\ AllDigits(field) /\ DigitsVal(field) \in 1..31
            THEN Some(DigitsVal(field))
            ELSE IF Len(field) = 2 /\ field[1] = " " /\ IsDigit(field[2]) /\ field[2] # "0"
                 THEN Some(DigitVal(field[2]))
                 ELSE None
      [] dir = "m" ->
            IF Len(field) \in {1, 2} /\ AllDigits(field) /\ DigitsVal(field) \in 1..12
            THEN Some(DigitsVal(field)) ELSE None
      [] dir = "Y" ->
            IF Len(field) = 4 /\ AllDigits(field) /\ DigitsVal(field) >= 1
            THEN Some(DigitsVal(field)) ELSE None
      [] dir = "b" ->
            IF \E i \in 1..12 : MonthAbbr[i] = Lower(field)
            THEN Some(CHOOSE i \in 1..12 : MonthAbbr[i] = Lower(field)) ELSE None
      [] dir = "B" ->
            IF \E i \in 1..12 : MonthFull[i] = Lower(field)
            THEN Some(CHOOSE i \in 1..12 : MonthFull[i] = Lower(field)) ELSE None

IsLeap(y) == (y % 4 = 0 /\ y % 100 # 0) \/ y % 400 = 0
DaysIn(y, m) == IF m = 2 THEN (IF IsLeap(y) THEN 29 ELSE 28)
                ELSE IF m \in {4, 6, 9, 11} THEN 30 ELSE 31

Pad(n, width) == [i \in 1..width |-> DigitChar((n \div (10 ^ (width - i))) % 10)]

\* datetime.strptime(s, fmt).strftime('%Y-%m-%d'); None is the ValueError
Strptime(s, fmt) ==
    LET fields == SplitOn(s, fmt[1], <<>>, <<>>)
    IN  IF Len(fields) # 3 THEN None
        ELSE LET got == [i \in 1..3 |-> Directive(fmt[i + 1], fields[i])]
                 pick(dirs) == Val(got[CHOOSE i \in 1..3 : fmt[i + 1] \in dirs])
             IN  IF \E i \in 1..3 : got[i] = None THEN None
                 ELSE LET y == pick({"Y"})
                          m == pick({"m", "b", "B"})
                          d == pick({"d"})
                      IN  IF d > DaysIn(y, m) THEN None
                          ELSE Some(Pad(y, 4) \o <<"-">> \o Pad(m, 2) \o <<"-">> \o Pad(d, 2))

\* parse_date: the first format that parses wins
parse_date(date_str) ==
    LET s == Strip(date_str)
        ok(i) == Strptime(s, date_formats[i]) # None
    IN  IF \E i \in 1..Len(date_formats) : ok(i)
        THEN Strptime(s, date_formats[CHOOSE i \in 1..Len(date_formats) :
                                          ok(i) /\ \A j \in 1..(i - 1) : ~ok(j)])
        ELSE None

\* ----- parse_amount
\* float(s): s is digits with at most one '.', at least one digit, blanks
\* around it; the token alphabet has no exponent, sign, inf or nan.  The
\* result is already rounded to 2 decimals (round(amount, 2)), in sub-cents;
\* None is the ValueError.
FloatRound2(str) ==
    LET s == Strip(str)
        parts == SplitOn(s, ".", <<>>, <<>>)
        ip == parts[1]
        fp == IF Len(parts) = 2 THEN parts[2] ELSE <<>>
    IN  IF Len(parts) > 2 \/ ~AllDigits(ip) \/ ~AllDigits(fp) \/ Len(ip) + Len(fp) = 0
        THEN None
        ELSE LET f2 == [i \in 1..2 |-> IF i <= Len(fp) THEN fp[i] ELSE "0"]
                 rest == IF Len(fp) > 2 THEN SubSeq(fp, 3, Len(fp)) ELSE <<>>
                 cents == DigitsVal(ip) * 100 + DigitsVal(f2)
                 half == 5 * 10 ^ (Len(rest) - 1)
                 up == rest # <<>> /\ (DigitsVal(rest) > half
                                        \/ (DigitsVal(rest) = half /\ cents % 2 = 1))
             IN  Some((IF up THEN cents + 1 ELSE cents) * Sub)

parse_amount(amount_str) ==
    IF ~TruthyStr(amount_str) THEN None
    ELSE LET s == Strip(Remove(Val(amount_str), ","))
         IN  IF Contains(s, <<"-">>)
             THEN LET v == FloatRound2(Remove(s, "-"))
                  IN  IF v = None THEN None ELSE Some(-Val(v))
             ELSE FloatRound2(s)

\* ----- parse_row: a row is a sequence of cells, a cell is a str or None
\* str(cell).strip() if cell else None
CellStr(cell) == IF TruthyStr(cell) THEN Some(Strip(Val(cell))) ELSE None

\* parse_row with the comparison of line 156 turned round
parse_row_debit_if_positive(row) ==
    IF Len(row) < 3 THEN None
    ELSE LET date_str == CellStr(row[1])
             description == CellStr(row[2])
             amount_str == CellStr(row[3])
             balance_str == IF Len(row) > 3 THEN CellStr(row[4]) ELSE None
         IN  IF ~(TruthyStr(date_str) /\ TruthyStr(description) /\ TruthyStr(amount_str))
             THEN None
             ELSE LET date == parse_date(Val(date_str))
                      amount == parse_amount(amount_str)
                      balance == IF TruthyStr(balance_str) THEN parse_amount(balance_str) ELSE None
                  IN  IF ~TruthyStr(date) \/ ~TruthyNum(amount) THEN None
                      ELSE Some([date |-> date,
                                 description |-> description,
                                 amount |-> amount,
                                 balance |-> balance,
                                 type |-> Some(IF Val(amount) > 0 THEN "DEBIT" ELSE "CREDIT")])

parse_row(row) ==
    IF Len(row) < 3 THEN None
    ELSE LET date_str == CellStr(row[1])
             description == CellStr(row[2])
             amount_str == CellStr(row[3])
             balance_str == IF Len(row) > 3 THEN CellStr(row[4]) ELSE None
         IN  IF ~(TruthyStr(date_str) /\ TruthyStr(description) /\ TruthyStr(amount_str))
             THEN None
             ELSE LET date == parse_date(Val(date_str))
                      amount == parse_amount(amount_str)
                      balance == IF TruthyStr(balance_str) THEN parse_amount(balance_str) ELSE None
                  IN  IF ~TruthyStr(date) \/ ~TruthyNum(amount) THEN None
                      ELSE Some([date |-> date,
                                 description |-> description,
                                 amount |-> amount,
                                 balance |-> balance,
                                 type |-> Some(IF Val(amount) < 0 THEN "DEBIT" ELSE "CREDIT")])

\* ----- extract_from_table: a table is a sequence of rows, a row may be None
\* lines 98-101: the body of the loop for one row
table_row(acc, row) ==
    LET transaction == IF row # None /\ Val(row) # <<>> /\ Len(Val(row)) >= 3
                       THEN parse_row(Val(row)) ELSE None
    IN  IF transaction # None THEN Append(acc, Val(transaction)) ELSE acc

RECURSIVE TableRows(_, _)
TableRows(acc, rows) ==
    IF rows = <<>> THEN acc ELSE TableRows(table_row(acc, Head(rows)), Tail(rows))

\* table[1:]
SkipHeader(table) == IF table = <<>> THEN <<>> ELSE Tail(table)

extract_from_table(acc, table) == TableRows(acc, SkipHeader(table))

\* ----- extract_from_text: the text is None, or a header line and the
\* sequence of matches re.finditer finds, each <<date_str, description, amount, balance>>
RECURSIVE TextMatches(_, _)
TextMatches(acc, matches) ==
    IF matches = <<>> THEN acc
    ELSE LET m == Head(matches)
             transaction == [date |-> parse_date(m[1]),
                             description |-> Some(Strip(m[2])),
                             amount |-> parse_amount(Some(m[3])),
                             balance |-> parse_amount(Some(m[4])),
                             type |-> Some(IF Contains(Upper(m[2]), <<"D","R">>) THEN "DEBIT" ELSE "CREDIT")]
         IN  TextMatches(IF TruthyStr(transaction.date) /\ TruthyNum(transaction.amount)
                         THEN Append(acc, transaction) ELSE acc,
                         Tail(matches))

\* re.finditer(pattern, None) raises TypeError, which the except clause swallows
extract_from_text(acc, text) == IF text = None THEN acc ELSE TextMatches(acc, Val(text).matches)

\* ----- extract_from_page: a page is what its two extraction calls give
\* [text_raises, tables_raises, text, tables]
\* lines 84-85: extract_from_table on each table in turn
RECURSIVE EachTable(_, _)
EachTable(acc, tables) ==
    IF tables = <<>> THEN acc
    ELSE EachTable(extract_from_table(acc, Head(tables)), Tail(tables))

\* lines 83-85: the accumulator after the page's tables
after_tables(acc, page) == IF page.tables # <<>> THEN EachTable(acc, page.tables) ELSE acc

\* lines 88-89: the text is tried, or not; the result carries, beside the
\* accumulator, whether line 89 ran and the accumulator's length at line 88
text_stage(afterTables, page, fallback) ==
    [acc |-> IF fallback THEN extract_from_text(afterTables, page.text) ELSE afterTables,
     mid |-> Len(afterTables),
     text_ran |-> fallback]

\* line 88: no tables on the page, or nothing accumulated so far
page_body(afterTables, page) ==
    text_stage(afterTables, page, page.tables = <<>> \/ Len(afterTables) = 0)

\* line 88 looking at what this page's tables added
page_body_own_yield(acc, afterTables, page) ==
    text_stage(afterTables, page, page.tables = <<>> \/ Len(afterTables) = Len(acc))

\* extract_from_page whose fallback test looks at the page's own yield
extract_from_page_own_yield(acc, page) ==
    IF page.text_raises \/ page.tables_raises
    THEN [acc |-> acc, mid |-> -1, text_ran |-> FALSE]
    ELSE page_body_own_yield(acc, after_tables(acc, page), page)

\* extract_from_page: lines 80-81 raise (mid = -1: line 88 not reached), or
\* the tables and then the text are tried
extract_from_page(acc, page) ==
    IF page.text_raises \/ page.tables_raises
    THEN [acc |-> acc, mid |-> -1, text_ran |-> FALSE]
    ELSE page_body(after_tables(acc, page), page)

\* ----- detect_bank_type
TextMentions(text, name) ==
    \/ Contains(Upper(text.header), name)
    \/ \E i \in 1..Len(text.matches) : Contains(Upper(text.matches[i][2]), name)

detect_bank_type(pages) ==
    IF pages = <<>> \/ pages[1].text_raises \/ pages[1].text = None THEN "GENERIC"
    ELSE LET first_page_text == Val(pages[1].text)
         IN  IF TextMentions(first_page_text, <<"H","D","F","C">>) THEN "HDFC"
             ELSE IF TextMentions(first_page_text, <<"I","C","I","C","I">>) THEN "ICICI"
             ELSE IF TextMentions(first_page_text, <<"S","B","I">>) THEN "SBI"
             ELSE "GENERIC"

\* ----- inputs of the parser
Row(cells) == Some(cells)
RowHeader == Row(<<Some(<<"D","a","t","e">>), Some(<<"D","e","s","c","r","i","p","t","i","o","n">>), Some(<<"A","m","o","u","n","t">>), Some(<<"B","a","l","a","n","c","e">>)>>)
RowDebit == Row(<<Some(<<"0","1","-","0","1","-","2","0","2","4">>), Some(<<"A","T","M"," ","C","a","s","h">>), Some(<<"-","5","0","0",".","0","0">>), Some(<<"1",",","5","0","0",".","0","0">>)>>)
RowCredit == Row(<<Some(<<" ","1","3","/","0","1","/","2","0","2","4"," ">>), Some(<<" ","S","a","l","a","r","y"," ">>), Some(<<"1",",","2","3","4",".","5","0">>)>>)
RowTrailingMinus == Row(<<Some(<<"5","-","J","a","n","-","2","0","2","4">>), Some(<<"C","a","r","d">>), Some(<<"1",",","2","3","4",".","5","0","-">>), Some(<<>>)>>)
RowZero == Row(<<Some(<<"0","2","-","0","1","-","2","0","2","4">>), Some(<<"F","e","e"," ","w","a","i","v","e","r">>), Some(<<"0",".","0","0">>), Some(<<"1","0">>)>>)
RowShort == Row(<<Some(<<"0","3","-","0","1","-","2","0","2","4">>), Some(<<"T","w","o"," ","c","e","l","l","s">>)>>)
RowBlankDesc == Row(<<Some(<<"0","4","-","0","1","-","2","0","2","4">>), Some(<<" "," ">>), Some(<<"5">>)>>)
RowNoneCell == Row(<<None, Some(<<"N","o"," ","d","a","t","e">>), Some(<<"5">>)>>)
RowBadDate == Row(<<Some(<<"3","1","-","0","2","-","2","0","2","4">>), Some(<<"R","e","n","t">>), Some(<<"1","0">>)>>)
RowBadAmount == Row(<<Some(<<"0","5","-","0","1","-","2","0","2","4">>), Some(<<"R","e","n","t">>), Some(<<"1",".","2",".","3">>)>>)

MatchDR == <<<<"0","1","/","0","2","/","2","0","2","4">>, <<"U","P","I"," ","d","r"," ","s","h","o","p">>, <<"5","0","0",".","0","0">>, <<"1",",","0","0","0",".","0","0">>>>
MatchCR == <<<<"2","-","2","-","2","0","2","4">>, <<"I","n","t","e","r","e","s","t">>, <<"7">>, <<",">>>>
MatchZero == <<<<"0","3","/","0","2","/","2","0","2","4">>, <<"Z","e","r","o"," ","D","R">>, <<"0",".","0","0">>, <<"7">>>>
MatchShortYear == <<<<"0","4","/","0","2","/","2","4">>, <<"S","h","o","r","t"," ","y","e","a","r">>, <<"5">>, <<"6">>>>

Text(h, ms) == Some([header |-> h, matches |-> ms])
Page(tr, br, text, tables) == [text_raises |-> tr, tables_raises |-> br, text |-> text, tables |-> tables]

PageTables == Page(FALSE, FALSE, Text(<<"H","D","F","C"," ","B","a","n","k">>, <<MatchCR>>),
                   << <<RowHeader, RowDebit, RowZero, RowCredit>> >>)
PageEmptyTables == Page(FALSE, FALSE, Text(<<"S","t","a","t","e","m","e","n","t">>, <<MatchDR>>),
                        << <<RowHeader, RowZero, RowBadAmount>>, <<>> >>)
PageText == Page(FALSE, FALSE, Text(<<"i","c","i","c","i"," ","o","r"," ","s","b","i">>, <<MatchDR, MatchZero, MatchCR, MatchShortYear>>), <<>>)
PageNoText == Page(FALSE, FALSE, None, <<>>)
PageTextRaises == Page(TRUE, FALSE, None, << <<RowHeader, RowCredit>> >>)
PageTablesRaise == Page(FALSE, TRUE, Text(<<"S","b","i">>, <<MatchCR>>), <<>>)

Pages == {PageTables, PageEmptyTables, PageText, PageNoText, PageTextRaises, PageTablesRaise}

\* the documents of at most n pages
Docs(n) == SeqsUpTo(Pages, n)

\* ----- parse_pdf, one step per page
\* line 31 raises: the except clause at lines 50-56 returns the error envelope
ParseOpenFail ==
    /\ pp_pc \in {"idle", "returned"}
    /\ pp_calls < MaxCalls
    /\ pp_calls' = pp_calls + 1
    /\ pp_result' = Some([status |-> "error", message |-> "Failed to parse PDF", transactions |-> <<>>])
    /\ pp_pc' = "returned"
    /\ pp_doc' = <<>>
    /\ pp_page' = 0
    /\ pp_start' = transactions
    /\ UNCHANGED <<transactions, bank_type, statement_date_range, pp_scanned,
                   pp_before, pp_mid, pp_text_ran>>
    /\ UNCHANGED <<dp_vars, tb_vars>>

\* lines 31-35: the document opens, the bank type is detected
ParseOpen ==
    /\ pp_pc \in {"idle", "returned"}
    /\ pp_calls < MaxCalls
    /\ pp_calls' = pp_calls + 1
    /\ \E doc \in Docs(MaxPages - pp_scanned) :
           /\ pp_doc' = doc
           /\ bank_type' = Some(detect_bank_type(doc))
           /\ pp_scanned' = pp_scanned + Len(doc)
    /\ pp_page' = 0
    /\ pp_result' = None
    /\ pp_pc' = "pages"
    /\ pp_start' = transactions
    /\ UNCHANGED <<transactions, statement_date_range, pp_before, pp_mid, pp_text_ran>>
    /\ UNCHANGED <<dp_vars, tb_vars>>

\* lines 38-39 with no try in extract_from_page: a raising page reaches the
\* except clause of parse_pdf
ParsePage_propagating ==
    /\ pp_pc = "pages"
    /\ pp_page < Len(pp_doc)
    /\ \E r \in {extract_from_page(transactions, pp_doc[pp_page + 1])} :
           /\ transactions' = r.acc
           /\ pp_mid' = r.mid
           /\ pp_text_ran' = r.text_ran
    /\ IF pp_doc[pp_page + 1].text_raises \/ pp_doc[pp_page + 1].tables_raises
       THEN /\ pp_result' = Some([status |-> "error", message |-> "Failed to parse PDF",
                                  transactions |-> <<>>])
            /\ pp_pc' = "returned"
       ELSE UNCHANGED <<pp_result, pp_pc>>
    /\ pp_before' = transactions
    /\ pp_page' = pp_page + 1
    /\ UNCHANGED <<bank_type, statement_date_range, pp_doc, pp_calls, pp_scanned, pp_start>>
    /\ UNCHANGED <<dp_vars, tb_vars>>

\* lines 38-39: extract_from_page on the next page
ParsePage ==
    /\ pp_pc = "pages"
    /\ pp_page < Len(pp_doc)
    /\ \E r \in {extract_from_page(transactions, pp_doc[pp_page + 1])} :
           /\ transactions' = r.acc
           /\ pp_mid' = r.mid
           /\ pp_text_ran' = r.text_ran
    /\ pp_before' = transactions
    /\ pp_page' = pp_page + 1
    /\ UNCHANGED <<bank_type, statement_date_range, pp_pc, pp_doc, pp_result, pp_calls,
                   pp_scanned, pp_start>>
    /\ UNCHANGED <<dp_vars, tb_vars>>

\* lines 41-49: the success envelope
ParseReturn ==
    /\ pp_pc = "pages"
    /\ pp_page = Len(pp_doc)
    /\ pp_result' = Some([status |-> "success",
                          transactions |-> transactions,
                          bank_type |-> bank_type,
                          total_transactions |-> Len(transactions),
                          statement_date_range |-> statement_date_range])
    /\ pp_pc' = "returned"
    /\ UNCHANGED <<transactions, bank_type, statement_date_range, pp_doc, pp_page, pp_calls,
                   pp_scanned, pp_start, pp_before, pp_mid, pp_text_ran>>
    /\ UNCHANGED <<dp_vars, tb_vars>>

PPInit ==
    /\ transactions = <<>>
    /\ bank_type = None
    /\ statement_date_range = None
    /\ pp_pc = "idle"
    /\ pp_doc = <<>>
    /\ pp_page = 0
    /\ pp_result = None
    /\ pp_calls = 0
    /\ pp_scanned = 0
    /\ pp_start = <<>>
    /\ pp_before = <<>>
    /\ pp_mid = 0
    /\ pp_text_ran = FALSE

\* ----- extract_from_table on one table, one step per row
RowSet == {RowDebit, RowCredit, RowTrailingMinus, RowZero, RowShort, RowBlankDesc,
           RowNoneCell, RowBadDate, RowBadAmount, None}

Tables == {<<>>} \cup {<<h>> \o rows : h \in {RowHeader, RowDebit}, rows \in SeqsUpTo(RowSet, MaxRows)}

\* lines 98-101 for the next row
TableRow ==
    /\ tb_pc = "rows"
    /\ tb_row < Len(tb_table)
    /\ transactions' = table_row(transactions, tb_table[tb_row + 1])
    /\ tb_row' = tb_row + 1
    /\ UNCHANGED <<tb_pc, tb_table>>
    /\ UNCHANGED <<dp_vars, pp_rest>>

\* line 97 finds no further row
TableDone ==
    /\ tb_pc = "rows"
    /\ tb_row >= Len(tb_table)
    /\ tb_pc' = "done"
    /\ UNCHANGED <<transactions, tb_table, tb_row>>
    /\ UNCHANGED <<dp_vars, pp_rest>>

TBInit ==
    /\ tb_pc = "idle"
    /\ tb_table = <<>>
    /\ tb_row = 0

\* ============================================================ specifications
Init == DPInit /\ PPInit /\ TBInit

\* extract_from_table applied to one table, drawn at the start (line 97: the
\* loop starts after the header row)
TableInit ==
    /\ DPInit
    /\ PPInit
    /\ tb_table \in Tables
    /\ tb_row = 1
    /\ tb_pc = "rows"

ProcessorNext == ProcessCall \/ ProcessItem \/ ProcessReturn
ParserNext == ParseOpenFail \/ ParseOpen \/ ParsePage \/ ParseReturn
TableNext == TableRow \/ TableDone

SpecProcessor == Init /\ [][ProcessorNext]_vars
SpecParser == Init /\ [][ParserNext]_vars
SpecTable == TableInit /\ [][TableNext]_vars
\* =================================================================== claims
DPReturned == dp_pc = "returned"
DPEnvelope == Val(dp_result)
PPReturned == pp_pc = "returned"
PPEnvelope == Val(pp_result)
PPSuccess == PPReturned /\ PPEnvelope.status = "success"

Raises(page) == page.text_raises \/ page.tables_raises
Quiet(page) == ~Raises(page)

\* the accumulator after extract_from_page on each page in turn
RECURSIVE ScanPages(_, _)
ScanPages(acc, pages) ==
    IF pages = <<>> THEN acc ELSE ScanPages(extract_from_page(acc, Head(pages)).acc, Tail(pages))

\* the page the last ParsePage step worked on
PageStepped == pp_page >= 1 /\ pp_page <= Len(pp_doc)
LastPage == pp_doc[pp_page]

\* ----- C1
\* C1: on one instance the accumulators are empty when a call starts its
\* work, so a parse_pdf envelope holds exactly what its own document yields
\* from an empty accumulator, and process_transactions starts its loop with
\* both lists empty.
C1_AccumulatorsResetPerCall ==
    /\ (pp_pc = "pages" /\ pp_page = 0 => transactions = <<>>)
    /\ (PPSuccess => PPEnvelope.transactions = ScanPages(<<>>, pp_doc))
    /\ (dp_pc = "loop" /\ dp_idx = 0 => processed_transactions = <<>> /\ validation_errors = <<>>)

\* ----- C2
\* malformed as the claim words it: empty date, empty or blank description, null amount
Malformed(item) ==
    \/ item.date = None \/ item.date = Some(<<>>)
    \/ item.description = None
    \/ \A i \in 1..Len(Val(item.description)) : IsSpace(Val(item.description)[i])
    \/ item.amount = None

ErrorsAt(k) == {j \in 1..Len(validation_errors) : validation_errors[j].index = k}

\* C2: for every position k the loop has passed, a malformed item has
\* exactly one validation error with index k carrying the unmodified item, a
\* well-formed item has none; the loop goes on to the end of the batch and
\* the envelope returns these errors.
C2_ErrorsAlignWithInput ==
    dp_pc \in {"loop", "returned"} =>
        /\ \A k \in 0..(dp_idx - 1) :
              IF Malformed(dp_input[k + 1])
              THEN /\ Cardinality(ErrorsAt(k)) = 1
                   /\ \A j \in ErrorsAt(k) : validation_errors[j].transaction = dp_input[k + 1]
              ELSE ErrorsAt(k) = {}
        /\ \A j \in 1..Len(validation_errors) : validation_errors[j].index \in 0..(dp_idx - 1)
        /\ (DPReturned => /\ dp_idx = Len(dp_input)
                          /\ DPEnvelope.validation_errors = validation_errors)

\* a malformed item between two well-formed ones, all three handled
C2_Witness ==
    /\ DPReturned
    /\ Len(dp_input) = 3
    /\ ~Malformed(dp_input[1]) /\ Malformed(dp_input[2]) /\ ~Malformed(dp_input[3])
    /\ Len(DPEnvelope.transactions) = 2
    /\ Len(DPEnvelope.validation_errors) = 1

\* ----- C3
\* the input item a processed transaction came from
SourceOf(t) == dp_input[t.row_num - 1]

\* C3: every processed transaction of the envelope has amount =
\* abs(raw_amount), type DEBIT exactly when raw_amount < 0 and CREDIT
\* otherwise whatever type the input carried, a non-null date and a non-null
\* amount (raw_amount is the input's amount, which was not None).
C3_SignInvariant ==
    DPReturned =>
        \A i \in 1..Len(DPEnvelope.transactions) :
            LET t == DPEnvelope.transactions[i]
            IN  /\ t.amount = Abs(t.raw_amount)
                /\ t.amount >= 0
                /\ t.type = (IF t.raw_amount < 0 THEN "DEBIT" ELSE "CREDIT")
                /\ t.date # None
                /\ SourceOf(t).amount # None
                /\ t.raw_amount = Val(SourceOf(t).amount)

\* a candidate supplied as DEBIT comes out CREDIT and one supplied as CREDIT comes out DEBIT
C3_Witness ==
    /\ DPReturned
    /\ \E i \in 1..Len(DPEnvelope.transactions) :
           LET t == DPEnvelope.transactions[i]
           IN  SourceOf(t).type = Some("DEBIT") /\ t.type = "CREDIT"
    /\ \E i \in 1..Len(DPEnvelope.transactions) :
           LET t == DPEnvelope.transactions[i]
           IN  SourceOf(t).type = Some("CREDIT") /\ t.type = "DEBIT"

\* ----- C4
ScenarioAResult(date) ==
    /\ DPEnvelope.status = "success"
    /\ DPEnvelope.transactions =
           << [date |-> Some(date),
               description |-> <<"A","T","M"," ","C","a","s","h"," ","W","i","t","h","d","r","a","w","a","l">>,
               amount |-> Money(500),
               raw_amount |-> Money(-500),
               type |-> "DEBIT",
               category |-> "WITHDRAWAL",
               balance |-> Some(Money(1500)),
               row_num |-> 2] >>
    /\ DPEnvelope.validation_errors = <<>>
    /\ DPEnvelope.summary.total_credits = 0
    /\ DPEnvelope.summary.total_debits = Money(500)
    /\ DPEnvelope.summary.net_amount = Money(-500)
    /\ DPEnvelope.summary.opening_balance = Some(Money(1500))
    /\ DPEnvelope.summary.closing_balance = Some(Money(1500))

\* C4 as stated: scenario A returns one processed transaction with date
\* "2024-01-01", description "ATM Cash Withdrawal", amount 500, raw_amount
\* -500, type DEBIT, category WITHDRAWAL, balance 1500, row_num 2, no
\* validation errors, and the summary 0 / 500 / -500 / 1500 / 1500.
C4_ScenarioA_IsoDate ==
    DPReturned /\ dp_input = <<ScenarioA>> => ScenarioAResult(<<"2","0","2","4","-","0","1","-","0","1">>)

\* C4 amended: the same result, except that the date is the input's string
\* "01-01-2024" as given: the Data Processor does not reformat dates.
C4_ScenarioA_DateUnchanged ==
    DPReturned /\ dp_input = <<ScenarioA>> => ScenarioAResult(<<"0","1","-","0","1","-","2","0","2","4">>)

C4_Witness == DPReturned /\ dp_input = <<ScenarioA>>

\* ----- C5
\* the sum of amount over the transactions of one type
RECURSIVE SumOfType(_, _)
SumOfType(txs, ty) ==
    IF txs = <<>> THEN 0
    ELSE (IF Head(txs).type = ty THEN Head(txs).amount ELSE 0) + SumOfType(Tail(txs), ty)

EmptySummary(s) ==
    /\ s.total_transactions = 0 /\ s.total_credits = 0 /\ s.total_debits = 0 /\ s.net_amount = 0
    /\ s.opening_balance = None /\ s.closing_balance = None

\* C5 as stated: total_transactions counts the processed transactions,
\* total_credits and total_debits are the sums of amount over the CREDIT and
\* the DEBIT transactions, both non-negative, net_amount = total_credits -
\* total_debits; with nothing processed all four are 0 and both balances null.
C5_SummaryExactSums ==
    DPReturned =>
        LET s == DPEnvelope.summary
            txs == DPEnvelope.transactions
        IN  IF txs = <<>> THEN EmptySummary(s)
            ELSE /\ s.total_transactions = Len(txs)
                 /\ s.total_credits = SumOfType(txs, "CREDIT")
                 /\ s.total_debits = SumOfType(txs, "DEBIT")
                 /\ s.total_credits >= 0 /\ s.total_debits >= 0
                 /\ s.net_amount = s.total_credits - s.total_debits

\* C5 amended: total_credits and total_debits are those sums rounded to 2
\* decimals, net_amount is (credit sum - debit sum) rounded to 2 decimals,
\* so it agrees with total_credits - total_debits only within rounding (one
\* cent here); the rest as stated.
C5_SummaryRoundedSums ==
    DPReturned =>
        LET s == DPEnvelope.summary
            txs == DPEnvelope.transactions
            credits == SumOfType(txs, "CREDIT")
            debits == SumOfType(txs, "DEBIT")
        IN  IF txs = <<>> THEN EmptySummary(s)
            ELSE /\ s.total_transactions = Len(txs)
                 /\ s.total_credits = RoundSub(credits)
                 /\ s.total_debits = RoundSub(debits)
                 /\ s.total_credits >= 0 /\ s.total_debits >= 0
                 /\ s.net_amount = RoundSub(credits - debits)
                 /\ Abs(s.net_amount - (s.total_credits - s.total_debits)) <= Sub

\* credits and debits both present, and rounding changes a total
C5_Witness ==
    /\ DPReturned
    /\ \E i \in 1..Len(DPEnvelope.transactions) : DPEnvelope.transactions[i].type = "CREDIT"
    /\ \E i \in 1..Len(DPEnvelope.transactions) : DPEnvelope.transactions[i].type = "DEBIT"
    /\ DPEnvelope.summary.total_credits # SumOfType(DPEnvelope.transactions, "CREDIT")

\* ----- C6
TypeFromSign(c) == Some(IF Val(c.amount) < 0 THEN "DEBIT" ELSE "CREDIT")

\* C6 as stated: every candidate of a success envelope has type DEBIT
\* exactly when its amount is negative, and CREDIT otherwise.
C6_TypeFollowsSign ==
    PPSuccess =>
        \A i \in 1..Len(PPEnvelope.transactions) :
            PPEnvelope.transactions[i].type = TypeFromSign(PPEnvelope.transactions[i])

\* what the last page step appended from its tables, and from its text
FromTables == IF PageStepped /\ pp_mid >= 0 THEN (Len(pp_before) + 1)..pp_mid ELSE {}
FromText == IF PageStepped /\ pp_mid >= 0 THEN (pp_mid + 1)..Len(transactions) ELSE {}

\* C6 amended: a candidate from the table variant has type DEBIT exactly
\* when its amount is negative, CREDIT otherwise; a candidate from the text
\* variant has a positive amount and type DEBIT exactly when its description
\* contains "DR" in any letter case, CREDIT otherwise; the success envelope
\* returns the accumulated candidates.
C6_TypeByVariant ==
    /\ \A i \in FromTables : transactions[i].type = TypeFromSign(transactions[i])
    /\ \A i \in FromText :
           /\ Val(transactions[i].amount) > 0
           /\ transactions[i].type =
                  Some(IF Contains(Upper(Val(transactions[i].description)), <<"D","R">>)
                       THEN "DEBIT" ELSE "CREDIT")
    /\ (PageStepped => Len(transactions) >= Len(pp_before))
    /\ (PPSuccess => PPEnvelope.transactions = transactions)

\* an envelope holding a DEBIT of positive amount (text) and a DEBIT of negative amount (table)
C6_Witness ==
    /\ PPSuccess
    /\ \E i \in 1..Len(PPEnvelope.transactions) :
           LET c == PPEnvelope.transactions[i] IN c.type = Some("DEBIT") /\ Val(c.amount) > 0
    /\ \E i \in 1..Len(PPEnvelope.transactions) :
           LET c == PPEnvelope.transactions[i] IN c.type = Some("DEBIT") /\ Val(c.amount) < 0
    /\ \E i \in 1..Len(PPEnvelope.transactions) :
           LET c == PPEnvelope.transactions[i] IN c.type = Some("CREDIT") /\ Val(c.amount) > 0

\* ----- C7
\* C7: a page whose text or table extraction raises leaves the accumulator
\* as it was; the accumulator is always what the pages scanned so far yield
\* with the raising pages left out of the document; a document that opened
\* returns status success with that accumulator; status error comes only
\* from the failed open, with an empty transactions list.
C7_PageFailureIsolated ==
    /\ (PageStepped /\ Raises(LastPage) => transactions = pp_before)
    /\ (pp_pc \in {"pages", "returned"} =>
            transactions = ScanPages(pp_start, SelectSeq(SubSeq(pp_doc, 1, pp_page), Quiet)))
    /\ (PPReturned /\ pp_doc # <<>> => PPEnvelope.status = "success")
    /\ (PPSuccess => /\ pp_page = Len(pp_doc)
                     /\ PPEnvelope.transactions = ScanPages(pp_start, SelectSeq(pp_doc, Quiet)))
    /\ (PPReturned /\ PPEnvelope.status = "error" =>
            /\ PPEnvelope.transactions = <<>>
            /\ pp_doc = <<>>
            /\ transactions = pp_start)

\* a raising page between two pages that both contribute, returned as success
C7_Witness ==
    /\ PPSuccess
    /\ Len(pp_doc) = 3
    /\ Quiet(pp_doc[1]) /\ Raises(pp_doc[2]) /\ Quiet(pp_doc[3])
    /\ Len(ScanPages(pp_start, <<pp_doc[1]>>)) > Len(pp_start)
    /\ Len(PPEnvelope.transactions) > Len(ScanPages(pp_start, <<pp_doc[1]>>))

\* ----- C8
\* C8: on a page whose two extraction calls returned, text extraction ran
\* exactly when the page had no tables or the accumulator was empty after the
\* page's tables; so with a non-empty accumulator before the page, a page
\* with tables gets no text extraction and nothing is appended after its
\* tables, also when the tables themselves yield nothing.
C8_TextFallbackIsCumulative ==
    PageStepped /\ Quiet(LastPage) =>
        /\ pp_text_ran <=> (LastPage.tables = <<>> \/ pp_mid = 0)
        /\ (LastPage.tables # <<>> /\ Len(pp_before) > 0 =>
                /\ ~pp_text_ran
                /\ Len(transactions) = pp_mid)
        /\ (~pp_text_ran => Len(transactions) = pp_mid)

\* an earlier page left a transaction; this page has tables that yield
\* nothing and a text that would yield something
C8_Witness ==
    /\ PageStepped
    /\ Quiet(LastPage)
    /\ LastPage.tables # <<>>
    /\ Len(pp_before) > Len(pp_start)
    /\ pp_mid = Len(pp_before)
    /\ extract_from_text(<<>>, LastPage.text) # <<>>

\* ----- C9
\* the row condition as the claim words it
CellFilled(cell) == cell # None /\ \E i \in 1..Len(Val(cell)) : ~IsSpace(Val(cell)[i])

RowAccepted(row) ==
    /\ row # None
    /\ Len(Val(row)) >= 3
    /\ \A i \in 1..3 : CellFilled(Val(row)[i])
    /\ parse_date(Val(Val(row)[1])) # None
    /\ parse_amount(Some(Strip(Val(Val(row)[3])))) # None

\* C9: the first row is skipped; every later row appends exactly one
\* candidate if it has at least 3 cells, non-empty date, description and
\* amount cells, and a date and an amount that parse (an amount of zero
\* included), and appends nothing otherwise; rows after it are still parsed.
C9_RowsAppendIffAccepted ==
    /\ Len(transactions) = Cardinality({i \in 2..tb_row : i <= Len(tb_table) /\ RowAccepted(tb_table[i])})
    /\ (tb_pc = "done" => tb_row >= Len(tb_table))

\* ----- C10
RowNums == {DPEnvelope.transactions[i].row_num : i \in 1..Len(DPEnvelope.transactions)}
ErrorIndices == {DPEnvelope.validation_errors[j].index : j \in 1..Len(DPEnvelope.validation_errors)}

\* C10: total_processed + total_errors is the batch length, the two counts
\* are the lengths of the two lists, every position is either a processed
\* transaction's row_num - 2 or an error's index and never both, row_num is
\* strictly increasing along the processed list, and the transaction with
\* row_num i + 2 is the one made from input position i.
C10_OneOutcomePerPosition ==
    DPReturned =>
        LET e == DPEnvelope
            n == Len(dp_input)
        IN  /\ e.total_processed + e.total_errors = n
            /\ e.total_processed = Len(e.transactions)
            /\ e.total_errors = Len(e.validation_errors)
            /\ {r - 2 : r \in RowNums} \cup ErrorIndices = 0..(n - 1)
            /\ {r - 2 : r \in RowNums} \cap ErrorIndices = {}
            /\ \A i \in 1..(Len(e.transactions) - 1) :
                   e.transactions[i].row_num < e.transactions[i + 1].row_num
            /\ \A i \in 1..Len(e.transactions) :
                   LET t == e.transactions[i]
                   IN  /\ t.date = SourceOf(t).date
                       /\ t.raw_amount = Val(SourceOf(t).amount)
                       /\ t.description = clean_description(Val(SourceOf(t).description))

\* three positions, the middle one failing: row_num 2 and 4
C10_Witness ==
    /\ DPReturned
    /\ Len(dp_input) = 3
    /\ RowNums = {2, 4}
    /\ ErrorIndices = {1}
====
